---- MODULE Spec2Model ----
(***************************************************************************)
(* Word-lookup tool: the Streamlit page (app.py) and the console loop      *)
(* (dictionary.py) over the WordNet database and the WordsAPI fallback.    *)
(*                                                                         *)
(* A Python str that the code inspects (input words, lemma names) is a     *)
(* sequence of one-character strings; glosses and example sentences are    *)
(* opaque strings.  A Python set is an insertion-ordered sequence without  *)
(* repetitions, built with SetAdd.  None is the empty sequence and a       *)
(* value v is <<v>> wherever a function returns "a record or None".        *)
(***************************************************************************)
EXTENDS Integers, Sequences, FiniteSets, TLC

\* ------------------------------------------------------------------ str

Whitespace == {" "}

\* str.lower() on one character
LowerChar(c) ==
  CASE c = "A" -> "a"
    [] c = "B" -> "b"
    [] c = "C" -> "c"
    [] c = "D" -> "d"
    [] c = "E" -> "e"
    [] c = "I" -> "i"
    [] c = "Q" -> "q"
    [] c = "T" -> "t"
    [] c = "U" -> "u"
    [] c = "X" -> "x"
    [] OTHER -> c

\* str.lower()
Lower(s) == IF s = <<>> THEN <<>> ELSE [i \in 1..Len(s) |-> LowerChar(s[i])]

RECURSIVE LStrip(_)
LStrip(s) == IF s # <<>> /\ Head(s) \in Whitespace THEN LStrip(Tail(s)) ELSE s

RECURSIVE RStrip(_)
RStrip(s) ==
  IF s # <<>> /\ s[Len(s)] \in Whitespace THEN RStrip(SubSeq(s, 1, Len(s) - 1)) ELSE s

\* str.strip()
Strip(s) == RStrip(LStrip(s))

\* name.replace('_', ' ')
ReplaceUnderscore(s) ==
  IF s = <<>> THEN <<>> ELSE [i \in 1..Len(s) |-> IF s[i] = "_" THEN " " ELSE s[i]]

\* word.lower().strip(): the normalisation of both front ends
Normalize(raw) == Strip(Lower(raw))

\* ------------------------------------------------------------------ set

Range(seq) == {seq[i] : i \in 1..Len(seq)}

NoDup(seq) == \A i, j \in 1..Len(seq) : seq[i] = seq[j] => i = j

\* set.add(x)
SetAdd(seq, x) == IF x \in Range(seq) THEN seq ELSE Append(seq, x)

RECURSIVE SetUpdate(_, _)
\* set.update(xs)
SetUpdate(seq, xs) ==
  IF xs = <<>> THEN seq ELSE SetUpdate(SetAdd(seq, Head(xs)), Tail(xs))

\* list(aSet)[:n]: the first n elements in the set's iteration order, which
\* the language leaves unspecified: every repetition-free listing of
\* min(n, len) elements of the set is a possible outcome.
ListOfSetPrefixes(seq, n) ==
  LET S == Range(seq)
      k == IF Cardinality(S) < n THEN Cardinality(S) ELSE n
  IN  {l \in [1..k -> S] : \A i, j \in 1..k : l[i] = l[j] => i = j}

\* ------------------------------------------------------------------ WordNet

wA == <<"a">>
wCapA == <<"A">>
wB == <<"b">>
wC == <<"c">>
wD == <<"d">>
wAB == <<"a", "_", "b">>
wASpB == <<"a", " ", "b">>

\* The synsets the database can hold.  Lemma names are written as WordNet
\* writes them: multi-word forms with underscores, proper forms capitalised.
Syn1 ==
  [pos |-> "n", definition |-> "d2", examples |-> <<"e1", "e2">>,
   lemmas |-> <<[name |-> wA, antonyms |-> <<wB>>],
                [name |-> wAB, antonyms |-> <<>>]>>]
Syn2 ==
  [pos |-> "v", definition |-> "d1", examples |-> <<>>,
   lemmas |-> <<[name |-> wCapA, antonyms |-> <<wAB, wB>>],
                [name |-> wB, antonyms |-> <<>>]>>]
Syn3 ==
  [pos |-> "s", definition |-> "d2", examples |-> <<"e3", "e4", "e1">>,
   lemmas |-> <<[name |-> wA, antonyms |-> <<>>],
                [name |-> wB, antonyms |-> <<wA>>]>>]
Syn4 ==
  [pos |-> "r", definition |-> "d3", examples |-> <<>>,
   lemmas |-> <<[name |-> wC, antonyms |-> <<>>]>>]

SynsetPool == {Syn1, Syn2, Syn3, Syn4}

\* the largest database enumerated
MaxSynsets == 2

\* A database is an enumeration (a repetition-free sequence) of synsets.
Databases ==
  {d \in UNION {[1..n -> SynsetPool] : n \in 0..MaxSynsets} :
     \A i, j \in 1..Len(d) : d[i] = d[j] => i = j}

HasLemma(synset, word) ==
  \E i \in 1..Len(synset.lemmas) : Lower(synset.lemmas[i].name) = word

\* wordnet.synsets(word): the synsets having a lemma written as the lowercased
\* query, in the database's enumeration order.
synsets(database, word) ==
  SelectSeq(database, LAMBDA s : HasLemma(s, Lower(word)))

\* ------------------------------------------------------------------ get_word_data

\* the record of a local lookup carries no 'source' key: data.get('source') is None
NoSource == "<none>"

\* examples kept in a local record
ExamplesLimit == 3

\* the data dictionary before the first synset
EmptyData(word) ==
  [word |-> word, definitions |-> <<>>, synonyms |-> <<>>, antonyms |-> <<>>,
   examples |-> <<>>, pos_tags |-> {}, source |-> NoSource]

\* [a.name().replace('_', ' ') for a in lemma.antonyms()]
AntonymNames(lemma) ==
  IF lemma.antonyms = <<>> THEN <<>>
  ELSE [i \in 1..Len(lemma.antonyms) |-> ReplaceUnderscore(lemma.antonyms[i])]

\* one lemma of the loop over synset.lemmas()
AddLemma(data, word, lemma) ==
  LET lemma_name == ReplaceUnderscore(lemma.name)
  IN  [data EXCEPT
         !.synonyms = IF lemma_name # word THEN SetAdd(@, lemma_name) ELSE @,
         !.antonyms = SetUpdate(@, AntonymNames(lemma))]

RECURSIVE AddLemmas(_, _, _)
AddLemmas(data, word, lemmas) ==
  IF lemmas = <<>> THEN data
  ELSE AddLemmas(AddLemma(data, word, Head(lemmas)), word, Tail(lemmas))

\* a mutant of AddSynset: a gloss already present is not appended again
AddSynsetDedup(data, word, synset) ==
  LET defn == [text |-> synset.definition, pos |-> synset.pos]
      d1 == [data EXCEPT
               !.definitions =
                  IF \E i \in 1..Len(@) : @[i].text = defn.text THEN @
                  ELSE Append(@, defn),
               !.pos_tags = @ \cup {synset.pos},
               !.examples = SetUpdate(@, synset.examples)]
  IN  AddLemmas(d1, word, synset.lemmas)

\* one synset of the loop "for synset in synsets"
AddSynset(data, word, synset) ==
  LET d1 == [data EXCEPT
               !.definitions =
                  Append(@, [text |-> synset.definition, pos |-> synset.pos]),
               !.pos_tags = @ \cup {synset.pos},
               !.examples = SetUpdate(@, synset.examples)]
  IN  AddLemmas(d1, word, synset.lemmas)

RECURSIVE AddSynsets(_, _, _)
AddSynsets(data, word, syns) ==
  IF syns = <<>> THEN data
  ELSE AddSynsets(AddSynset(data, word, Head(syns)), word, Tail(syns))

\* a mutant of LocalRecords: the examples are not cut to ExamplesLimit
LocalRecordsUncut(word, syns) ==
  LET data == AddSynsets(EmptyData(word), word, syns)
  IN  {[data EXCEPT !.examples = l] :
         l \in ListOfSetPrefixes(data.examples, Len(data.examples))}

\* The records the local branch can return for a normalised word and its
\* synsets: one for each order in which list(data['examples']) can list the
\* set.  pos_tags is kept as a set: its only reader takes set(pos_tags).
LocalRecords(word, syns) ==
  LET data == AddSynsets(EmptyData(word), word, syns)
  IN  {[data EXCEPT !.examples = l] :
         l \in ListOfSetPrefixes(data.examples, ExamplesLimit)}

\* ------------------------------------------------------------------ dictionary.py

\* one lemma of the loop over synset.lemmas() in get_definitions_and_synonyms
ConsoleAddLemma(synonyms, word, lemma) ==
  IF lemma.name # word THEN SetAdd(synonyms, ReplaceUnderscore(lemma.name))
  ELSE synonyms

RECURSIVE ConsoleAddLemmas(_, _, _)
ConsoleAddLemmas(synonyms, word, lemmas) ==
  IF lemmas = <<>> THEN synonyms
  ELSE ConsoleAddLemmas(ConsoleAddLemma(synonyms, word, Head(lemmas)), word,
                        Tail(lemmas))

RECURSIVE ConsoleCollect(_, _, _)
\* the loop "for synset in synsets" of get_definitions_and_synonyms
ConsoleCollect(out, word, syns) ==
  IF syns = <<>> THEN out
  ELSE ConsoleCollect(
         [out EXCEPT !.definitions = Append(@, Head(syns).definition),
                     !.synonyms = ConsoleAddLemmas(@, word, Head(syns).lemmas)],
         word, Tail(syns))

\* get_definitions_and_synonyms(word): what it prints and returns
get_definitions_and_synonyms(database, raw) ==
  LET word == Normalize(raw)
      syns == synsets(database, word)
      none == [word |-> word, found |-> FALSE, definitions |-> <<>>, synonyms |-> <<>>]
  IN  IF syns = <<>> THEN none
      ELSE ConsoleCollect([none EXCEPT !.found = TRUE], word, syns)

\* ------------------------------------------------------------------ WordsAPI

\* A JSON value of the response body, with the Python type json() gives it:
\* "obj" a dict, "list" a list, "null" None, "num" a number; a key a dict
\* lacks is "absent".  "invalid" is a body that is no JSON at all.
Field(t, items) == [t |-> t, items |-> items]
AbsentField == Field("absent", <<>>)
NullField == Field("null", <<>>)
Defn(text) == [t |-> "obj", definition |-> <<text>>]
DefnNoText == [t |-> "obj", definition |-> <<>>]
DefnNum == [t |-> "num", definition |-> <<>>]
Meaning(pos, defs, syns, ants, exs) ==
  [t |-> "obj", partOfSpeech |-> pos, definitions |-> defs, synonyms |-> syns,
   antonyms |-> ants, examples |-> exs]
MeaningNum ==
  [t |-> "num", partOfSpeech |-> <<>>, definitions |-> AbsentField,
   synonyms |-> AbsentField, antonyms |-> AbsentField, examples |-> AbsentField]
Body(t, meanings) == [t |-> t, meanings |-> meanings]

MeaningA ==
  Meaning(<<"noun">>, Field("list", <<Defn("x2"), Defn("x1")>>),
          Field("list", <<wD, wB, wD>>), Field("list", <<wB>>),
          Field("list", <<"r1", "r2", "r3">>))
MeaningB ==
  Meaning(<<>>, Field("list", <<DefnNoText>>), Field("list", <<wB>>),
          AbsentField, Field("list", <<"r1", "r4">>))
MeaningC ==
  Meaning(<<"verb">>, Field("list", <<Defn("x1")>>), AbsentField,
          Field("list", <<wB, wA>>), Field("list", <<"r5">>))
MeaningNoDefs ==
  Meaning(<<"noun">>, AbsentField, Field("list", <<wB>>), AbsentField,
          Field("list", <<"r1">>))
MeaningEmptyDefs ==
  Meaning(<<"noun">>, Field("list", <<>>), AbsentField, AbsentField, AbsentField)
MeaningDefnNum ==
  Meaning(<<"noun">>, Field("list", <<Defn("x1"), DefnNum>>), AbsentField,
          AbsentField, AbsentField)
MeaningDefsNull ==
  Meaning(<<"noun">>, NullField, AbsentField, AbsentField, AbsentField)
MeaningSynsNull ==
  Meaning(<<"noun">>, Field("list", <<Defn("x1")>>), NullField, AbsentField,
          AbsentField)
MeaningExsNull ==
  Meaning(<<"noun">>, Field("list", <<Defn("x1")>>), AbsentField, AbsentField,
          NullField)

Bodies ==
  {Body("invalid", AbsentField), Body("null", AbsentField),
   Body("list", AbsentField), Body("obj", AbsentField), Body("obj", NullField),
   Body("obj", Field("list", <<MeaningA, MeaningB, MeaningC>>)),
   Body("obj", Field("list", <<MeaningC, MeaningNoDefs>>)),
   Body("obj", Field("list", <<MeaningNoDefs, MeaningEmptyDefs>>)),
   Body("obj", Field("list", <<MeaningC, MeaningNum>>)),
   Body("obj", Field("list", <<MeaningDefnNum>>)),
   Body("obj", Field("list", <<MeaningDefsNull>>)),
   Body("obj", Field("list", <<MeaningSynsNull>>)),
   Body("obj", Field("list", <<MeaningC, MeaningExsNull>>))}

NoResponse ==
  [kind |-> "RequestException", status_code |-> 0, body |-> Body("invalid", AbsentField)]

\* What requests.get can give: a RequestException (timeout, no connection) or
\* a response with a status code and a body.
Responses ==
  {NoResponse,
   [kind |-> "response", status_code |-> 404, body |-> Body("obj", AbsentField)],
   [kind |-> "response", status_code |-> 500, body |-> Body("invalid", AbsentField)]}
  \cup {[kind |-> "response", status_code |-> 200, body |-> b] : b \in Bodies}

\* os.getenv('WORDS_API_KEY'): unset, set to the empty string, or a key
NoEnv == "<unset>"
ApiKeys == {NoEnv, "", "k"}

\* examples taken from one meaning, and kept in a remote record
ExamplesPerMeaning == 2
ApiExamplesLimit == 3

\* the data dictionary of get_word_from_api before the first meaning
ApiEmptyData(word) ==
  [word |-> word, definitions |-> <<>>, synonyms |-> <<>>, antonyms |-> <<>>,
   examples |-> <<>>, pos_tags |-> {}, source |-> "WordsAPI"]

\* seq[:n]
Prefix(seq, n) == IF Len(seq) <= n THEN seq ELSE SubSeq(seq, 1, n)

\* The loop body runs on st = [exc, data]; exc names the exception a step
\* raised ("none" while none has been), after which no step has an effect.
ApiAddDefinitions(st, meaning, pos) ==
  LET f == meaning.definitions
  IN  IF st.exc # "none" \/ f.t = "absent" THEN st
      ELSE IF f.t # "list" THEN [st EXCEPT !.exc = "TypeError"]
      ELSE IF \E i \in 1..Len(f.items) : f.items[i].t # "obj"
        THEN [st EXCEPT !.exc = "AttributeError"]
      ELSE [st EXCEPT !.data.definitions =
              @ \o [i \in 1..Len(f.items) |->
                      [text |-> IF f.items[i].definition = <<>> THEN ""
                                ELSE f.items[i].definition[1],
                       pos |-> pos]]]

ApiAddSynonyms(st, meaning) ==
  LET f == meaning.synonyms
  IN  IF st.exc # "none" \/ f.t = "absent" THEN st
      ELSE IF f.t # "list" THEN [st EXCEPT !.exc = "TypeError"]
      ELSE [st EXCEPT !.data.synonyms = SetUpdate(@, f.items)]

ApiAddAntonyms(st, meaning) ==
  LET f == meaning.antonyms
  IN  IF st.exc # "none" \/ f.t = "absent" THEN st
      ELSE IF f.t # "list" THEN [st EXCEPT !.exc = "TypeError"]
      ELSE [st EXCEPT !.data.antonyms = SetUpdate(@, f.items)]

ApiAddExamples(st, meaning) ==
  LET f == meaning.examples
  IN  IF st.exc # "none" \/ f.t = "absent" THEN st
      ELSE IF f.t # "list" THEN [st EXCEPT !.exc = "TypeError"]
      ELSE [st EXCEPT !.data.examples = @ \o Prefix(f.items, ExamplesPerMeaning)]

\* one meaning of the loop "for meaning in api_data['meanings']"
ApiAddMeaning(st, meaning) ==
  IF st.exc # "none" THEN st
  ELSE IF meaning.t # "obj" THEN [st EXCEPT !.exc = "AttributeError"]
  ELSE LET pos == IF meaning.partOfSpeech = <<>> THEN "unknown"
                  ELSE meaning.partOfSpeech[1]
           s0 == [st EXCEPT !.data.pos_tags = @ \cup {pos}]
       IN  ApiAddExamples(
             ApiAddAntonyms(
               ApiAddSynonyms(ApiAddDefinitions(s0, meaning, pos), meaning),
               meaning),
             meaning)

RECURSIVE ApiAddMeanings(_, _)
ApiAddMeanings(st, meanings) ==
  IF meanings = <<>> THEN st
  ELSE ApiAddMeanings(ApiAddMeaning(st, Head(meanings)), Tail(meanings))

\* the outcome of a call: the exception that left it, or the value returned
\* (<<>> for None), and the number of HTTP requests it sent
Returned(val, http) == [exc |-> "none", val |-> val, http |-> http]
Raised(exc, http) == [exc |-> exc, val |-> <<>>, http |-> http]

\* get_word_from_api from "api_data = response.json()" on, for a 200 response.
\* The except clause catches RequestException, ValueError and KeyError: the
\* ValueError of a body that is no JSON gives None; a TypeError or an
\* AttributeError of the parse leaves the function.
ApiParse(word, body) ==
  IF body.t = "invalid" THEN {Returned(<<>>, 1)}
  ELSE IF body.t = "null" THEN {Raised("TypeError", 1)}
  ELSE IF body.t = "list" \/ body.meanings.t = "absent" THEN {Returned(<<>>, 1)}
  ELSE IF body.meanings.t # "list" THEN {Raised("TypeError", 1)}
  ELSE LET st == ApiAddMeanings([exc |-> "none", data |-> ApiEmptyData(word)],
                                body.meanings.items)
       IN  IF st.exc # "none" THEN {Raised(st.exc, 1)}
           ELSE IF st.data.definitions = <<>> THEN {Returned(<<>>, 1)}
           ELSE {Returned(<<[st.data EXCEPT !.examples = l]>>, 1) :
                   l \in ListOfSetPrefixes(st.data.examples, ApiExamplesLimit)}

\* a mutant of get_word_from_api: the request is sent without a key
get_word_from_api_nokeycheck(word, api_key, resp) ==
  IF resp.kind = "RequestException" \/ resp.status_code # 200
    THEN {Returned(<<>>, 1)}
  ELSE ApiParse(word, resp.body)

\* get_word_from_api(word), uncached: its possible outcomes when the
\* environment holds api_key and requests.get would give resp
get_word_from_api(word, api_key, resp) ==
  IF api_key \in {NoEnv, ""} THEN {Returned(<<>>, 0)}
  ELSE IF resp.kind = "RequestException" \/ resp.status_code # 200
    THEN {Returned(<<>>, 1)}
  ELSE ApiParse(word, resp.body)

\* ------------------------------------------------------------------ state

VARIABLES
  database,      \* the WordNet corpus the process has loaded (read-only)
  api_key,       \* the value of WORDS_API_KEY in the process environment
  now,           \* the clock, in seconds
  data_cache,    \* st.cache_data of get_word_data: argument -> [at, val]
  api_cache,     \* st.cache_data of get_word_from_api: argument -> [at, val]
  history,       \* st.session_state.history of each session
  current_word,  \* st.session_state.current_word of each session (<<>> is None)
  shown,         \* what the last run of the script rendered for each session
  output_text,   \* the text of its "Download Result" button (<<>> without one)
  con_pc,        \* the console loop: "prompt" (at input()), "except" (in the
                 \* handler of "except Exception") or "exited"
  con_eof,       \* the console's input stream has ended: every read raises EOFError
  con_exit,      \* the console's exit code once it has exited
  calls,         \* direct invocations of get_word_data made so far
  last           \* the lookup or console step of the most recent step

vars ==
  <<database, api_key, now, data_cache, api_cache, history, current_word, shown,
    output_text, con_pc, con_eof, con_exit, calls, last>>

env == <<database, api_key>>
caches == <<data_cache, api_cache>>
page == <<history, current_word, shown, output_text>>
console == <<con_pc, con_eof, con_exit>>

\* ttl of the two st.cache_data decorators, in seconds
DataTTL == 3600
ApiTTL == 3600

\* the clock advances in steps of half a ttl up to MaxTime
TickStep == DataTTL \div 2
MaxTime == 3600

\* ------------------------------------------------------------------ st.cache_data

EmptyCache == [k \in {} |-> [at |-> 0, val |-> <<>>]]

\* an entry answers a call until ttl seconds after it was stored
Fresh(cache, key, ttl, t) == key \in DOMAIN cache /\ t < cache[key].at + ttl

\* the key of a call: the argument as passed
CacheKey(arg) == arg

\* storing drops the entries that have expired
Store(cache, key, val, ttl, t) ==
  LET keep == {k \in DOMAIN cache : Fresh(cache, k, ttl, t) /\ k # key}
  IN  [k \in keep \cup {key} |->
         IF k = key THEN [at |-> t, val |-> val] ELSE cache[k]]

\* The cached get_word_from_api(word): [out, ac] for each possible outcome,
\* ac the cache afterwards.  A call that raises stores nothing.
CachedApi(ac, word, key, resp, t) ==
  IF Fresh(ac, CacheKey(word), ApiTTL, t)
    THEN {[out |-> Returned(ac[CacheKey(word)].val, 0), ac |-> ac]}
  ELSE {[out |-> o,
         ac |-> IF o.exc = "none" THEN Store(ac, CacheKey(word), o.val, ApiTTL, t)
                ELSE ac] :
          o \in get_word_from_api(word, key, resp)}

\* a mutant of GetWordDataBody: no check for an empty word
GetWordDataBodyNoEmptyCheck(db, ac, arg, key, resp, t) ==
  LET word == Normalize(arg)
      syns == synsets(db, word)
  IN  IF syns = <<>>
        THEN {[out |-> [exc |-> r.out.exc, val |-> r.out.val, http |-> r.out.http,
                        dbq |-> 1],
               ac |-> r.ac] : r \in CachedApi(ac, word, key, resp, t)}
      ELSE {[out |-> [exc |-> "none", val |-> <<rec>>, http |-> 0, dbq |-> 1],
             ac |-> ac] : rec \in LocalRecords(word, syns)}

\* a mutant of GetWordDataBody: local entries without examples are completed
\* from the API
GetWordDataBodyMerge(db, ac, arg, key, resp, t) ==
  LET word == Normalize(arg)
      syns == synsets(db, word)
  IN  IF word = <<>>
        THEN {[out |-> [exc |-> "none", val |-> <<>>, http |-> 0, dbq |-> 0],
               ac |-> ac]}
      ELSE IF syns = <<>>
        THEN {[out |-> [exc |-> r.out.exc, val |-> r.out.val, http |-> r.out.http,
                        dbq |-> 1],
               ac |-> r.ac] : r \in CachedApi(ac, word, key, resp, t)}
      ELSE IF AddSynsets(EmptyData(word), word, syns).examples = <<>>
        THEN {[out |-> [exc |-> r.out.exc,
                        val |-> IF r.out.val # <<>> THEN r.out.val ELSE <<rec>>,
                        http |-> r.out.http, dbq |-> 1],
               ac |-> r.ac] :
                r \in CachedApi(ac, word, key, resp, t),
                rec \in LocalRecords(word, syns)}
      ELSE {[out |-> [exc |-> "none", val |-> <<rec>>, http |-> 0, dbq |-> 1],
             ac |-> ac] : rec \in LocalRecords(word, syns)}

\* The body of get_word_data(arg): [out, ac] for each possible outcome; dbq
\* counts its calls of wordnet.synsets.
GetWordDataBody(db, ac, arg, key, resp, t) ==
  LET word == Normalize(arg)
      syns == synsets(db, word)
  IN  IF word = <<>>
        THEN {[out |-> [exc |-> "none", val |-> <<>>, http |-> 0, dbq |-> 0],
               ac |-> ac]}
      ELSE IF syns = <<>>
        THEN {[out |-> [exc |-> r.out.exc, val |-> r.out.val, http |-> r.out.http,
                        dbq |-> 1],
               ac |-> r.ac] : r \in CachedApi(ac, word, key, resp, t)}
      ELSE {[out |-> [exc |-> "none", val |-> <<rec>>, http |-> 0, dbq |-> 1],
             ac |-> ac] : rec \in LocalRecords(word, syns)}

\* The cached get_word_data(arg): [out, hit, dc, ac] for each possible outcome.
CachedGetWordData(db, dc, ac, arg, key, resp, t) ==
  IF Fresh(dc, CacheKey(arg), DataTTL, t)
    THEN {[out |-> [exc |-> "none", val |-> dc[CacheKey(arg)].val, http |-> 0,
                    dbq |-> 0],
           hit |-> TRUE, dc |-> dc, ac |-> ac]}
  ELSE {[out |-> r.out, hit |-> FALSE,
         dc |-> IF r.out.exc = "none"
                  THEN Store(dc, CacheKey(arg), r.out.val, DataTTL, t)
                ELSE dc,
         ac |-> r.ac] :
          r \in GetWordDataBody(db, ac, arg, key, resp, t)}

\* ------------------------------------------------------------------ inputs

\* the sessions one server process serves
NumSessions == 2
Sessions == 1..NumSessions

\* direct invocations of get_word_data in one run
MaxCalls == 1

\* arguments get_word_data is called with
RawInputs ==
  {<<>>, <<" ">>, wA, <<" ", "A">>, wAB, wC, wD}

\* lines typed at the console prompt
ConsoleLines ==
  {<<>>, <<" ">>, <<"q">>, <<"Q">>, <<" ", "q", " ">>, <<"q", "u", "i", "t">>,
   <<"Q", "u", "i", "t">>, <<"E", "X", "I", "T", " ">>, <<"q", "q">>,
   <<"q", "u", "i", "t", " ", "a">>, wA, wCapA, <<" ", "a">>, wB, wC, wD, wAB,
   wASpB}

\* a mutant of ExitCommands: the short form is not accepted
ExitCommandsLong == {<<"q", "u", "i", "t">>, <<"e", "x", "i", "t">>}

\* ('quit', 'exit', 'q')
ExitCommands ==
  {<<"q", "u", "i", "t">>, <<"e", "x", "i", "t">>, <<"q">>}

\* what the most recent step did: the operation and its input, the outcome of
\* its lookup if it made one, and the response its HTTP request received if it
\* sent one
NoLookup ==
  [op |-> "none", raw |-> <<>>, exc |-> "none", val |-> <<>>, http |-> 0,
   dbq |-> 0, hit |-> FALSE, looked |-> FALSE, resp |-> NoResponse]

\* the response received by a call that sent r.out.http requests
Received(out, resp) == IF out.http > 0 THEN resp ELSE NoResponse

\* ------------------------------------------------------------------ Init

InitState ==
  /\ now = 0
  /\ data_cache = EmptyCache
  /\ api_cache = EmptyCache
  /\ history = [s \in Sessions |-> <<>>]
  /\ current_word = [s \in Sessions |-> <<>>]
  /\ shown = [s \in Sessions |-> "blank"]
  /\ output_text = [s \in Sessions |-> <<>>]
  /\ con_pc = "prompt"
  /\ con_eof = FALSE
  /\ con_exit = -1
  /\ calls = 0
  /\ last = NoLookup

Init ==
  /\ database \in Databases
  /\ api_key \in ApiKeys
  /\ InitState

\* ------------------------------------------------------------------ the service

\* get_word_data(raw), called directly
GetWordData(raw, resp) ==
  /\ calls < MaxCalls
  /\ \E r \in CachedGetWordData(database, data_cache, api_cache, raw, api_key,
                                resp, now) :
       /\ data_cache' = r.dc
       /\ api_cache' = r.ac
       /\ last' = [op |-> "get_word_data", raw |-> raw, exc |-> r.out.exc,
                   val |-> r.out.val, http |-> r.out.http, dbq |-> r.out.dbq,
                   hit |-> r.hit, looked |-> TRUE,
                   resp |-> Received(r.out, resp)]
  /\ calls' = calls + 1
  /\ UNCHANGED <<env, now, page, console>>

\* time passes
Tick ==
  /\ now + TickStep <= MaxTime
  /\ now' = now + TickStep
  /\ UNCHANGED <<env, caches, page, console, calls, last>>

\* ------------------------------------------------------------------ main() of dictionary.py

\* one iteration of the loop on a line read by input()
ConsoleLine(line) ==
  /\ con_pc = "prompt"
  /\ ~con_eof
  /\ LET word == Strip(line)
     IN  IF Lower(word) \in ExitCommands
           THEN /\ con_pc' = "exited"
                /\ con_exit' = 0
                /\ UNCHANGED con_eof
                /\ last' = [NoLookup EXCEPT !.op = "line", !.raw = line]
         ELSE IF word = <<>>
           THEN /\ UNCHANGED console
                /\ last' = [NoLookup EXCEPT !.op = "line", !.raw = line]
         ELSE /\ UNCHANGED console
              /\ last' = [NoLookup EXCEPT
                            !.op = "line", !.raw = line, !.looked = TRUE,
                            !.dbq = 1,
                            !.val = <<get_definitions_and_synonyms(database, word)>>]
  /\ UNCHANGED <<env, now, caches, page, calls>>

\* KeyboardInterrupt, at the prompt or during a lookup
ConsoleInterrupt ==
  /\ con_pc = "prompt"
  /\ con_pc' = "exited"
  /\ con_exit' = 0
  /\ UNCHANGED con_eof
  /\ last' = [NoLookup EXCEPT !.op = "interrupt"]
  /\ UNCHANGED <<env, now, caches, page, calls>>

\* input() raises EOFError, which "except Exception" catches: at the end of a
\* file or a pipe (closed: every later read raises it too) or on an
\* end-of-file key typed at a terminal (which can be read again)
ConsoleEOF(closed) ==
  /\ con_pc = "prompt"
  /\ con_pc' = "except"
  /\ con_eof' = (con_eof \/ closed)
  /\ last' = [NoLookup EXCEPT !.op = "eof", !.exc = "EOFError"]
  /\ UNCHANGED <<env, now, caches, page, con_exit, calls>>

\* the handler of "except Exception" prints the error and the loop goes on
\* to the next input()
ConsoleExcept ==
  /\ con_pc = "except"
  /\ con_pc' = "prompt"
  /\ UNCHANGED <<env, now, caches, page, con_eof, con_exit, calls, last>>

\* requests.get is reached by get_word_data(arg): no cached answer, a word
\* without synsets, and a key in the environment
SendsRequest(arg) ==
  /\ ~Fresh(data_cache, CacheKey(arg), DataTTL, now)
  /\ Normalize(arg) # <<>>
  /\ synsets(database, Normalize(arg)) = <<>>
  /\ ~Fresh(api_cache, CacheKey(Normalize(arg)), ApiTTL, now)
  /\ api_key \notin {NoEnv, ""}

\* the responses the network can give to the request of a call, if it sends one
ResponsesTo(arg) == IF SendsRequest(arg) THEN Responses ELSE {NoResponse}

Next ==
  \E raw \in RawInputs : \E resp \in ResponsesTo(raw) : GetWordData(raw, resp)

Spec == Init /\ [][Next]_vars

NextConsole ==
  \/ \E line \in ConsoleLines : ConsoleLine(line)
  \/ ConsoleInterrupt
  \/ \E closed \in BOOLEAN : ConsoleEOF(closed)
  \/ ConsoleExcept

SpecConsole == Init /\ [][NextConsole]_vars

\* The steps the loop takes without waiting for anybody: the except handler
\* returns to the prompt, and at the end of the input input() raises at once.
\* A line or an interrupt comes when the user sends one, if ever.
ConsoleFairness ==
  /\ WF_vars(ConsoleExcept)
  /\ WF_vars(con_eof /\ ConsoleEOF(TRUE))

SpecConsoleFair == Init /\ [][NextConsole]_vars /\ ConsoleFairness

\* ------------------------------------------------------------------ the page

\* entries kept in the search history
HistoryLimit == 5

\* a mutant of add_to_history: the list is not cut
add_to_history_uncut(hist, word) ==
  IF word \in Range(hist) THEN hist ELSE <<word>> \o hist

\* add_to_history(word)
add_to_history(hist, word) ==
  IF word \in Range(hist) THEN hist ELSE Prefix(<<word>> \o hist, HistoryLimit)

\* str.upper() on one character
UpperChar(c) ==
  CASE c = "a" -> "A"
    [] c = "b" -> "B"
    [] c = "c" -> "C"
    [] c = "d" -> "D"
    [] c = "e" -> "E"
    [] c = "i" -> "I"
    [] c = "q" -> "Q"
    [] c = "t" -> "T"
    [] c = "u" -> "U"
    [] c = "x" -> "X"
    [] OTHER -> c

\* the characters of the words, in the order of their code points
CodePoints ==
  <<" ", "A", "B", "C", "D", "E", "I", "Q", "T", "U", "X", "_",
    "a", "b", "c", "d", "e", "i", "q", "t", "u", "x">>

ord(c) == CHOOSE i \in 1..Len(CodePoints) : CodePoints[i] = c

IsCased(c) == c \notin {" ", "_"}

\* str.title(): a letter that follows no letter in upper case, the others in
\* lower case
Title(s) ==
  IF s = <<>> THEN <<>>
  ELSE [i \in 1..Len(s) |->
          IF i = 1 \/ ~IsCased(s[i - 1]) THEN UpperChar(s[i]) ELSE LowerChar(s[i])]

RECURSIVE StrLess(_, _)
\* a < b on two str
StrLess(a, b) ==
  IF b = <<>> THEN FALSE
  ELSE IF a = <<>> THEN TRUE
  ELSE IF Head(a) = Head(b) THEN StrLess(Tail(a), Tail(b))
  ELSE ord(Head(a)) < ord(Head(b))

RECURSIVE sorted(_)
\* sorted(aSet) of a set of str
sorted(seq) ==
  IF seq = <<>> THEN <<>>
  ELSE LET least == CHOOSE x \in Range(seq) :
                      \A y \in Range(seq) : y = x \/ StrLess(x, y)
       IN  <<least>> \o sorted(SelectSeq(seq, LAMBDA y : y # least))

\* pos_map.get(pos_code, 'Unknown')
pos_to_name(pos_code) ==
  CASE pos_code = "n" -> "Noun"
    [] pos_code = "v" -> "Verb"
    [] pos_code = "a" -> "Adjective"
    [] pos_code = "r" -> "Adverb"
    [] pos_code = "s" -> "Adjective Satellite"
    [] OTHER -> "Unknown"

\* format_output(data): the title, one numbered line per definition with the
\* name of its part of speech, then the synonyms, the antonyms and the
\* examples (a section of the text is there when its list is not empty)
format_output(data) ==
  [title |-> Title(data.word),
   definitions |->
     IF data.definitions = <<>> THEN <<>>
     ELSE [i \in 1..Len(data.definitions) |->
             [number |-> i, text |-> data.definitions[i].text,
              name |-> pos_to_name(data.definitions[i].pos)]],
   synonyms |-> sorted(data.synonyms),
   antonyms |-> sorted(data.antonyms),
   examples |-> data.examples]

\* the words of the "Try These Words" buttons (capitalised, as the five of the
\* source are)
Suggestions == {<<"C">>, <<"D">>}

\* what a run of the script renders below the search box
View(out) ==
  IF out.exc # "none" THEN "error"      \* the run stops at the exception
  ELSE IF out.val # <<>> THEN "result"   \* the record and its action buttons
  ELSE "notfound"                        \* the message and the suggestions

\* the word the "Display results" section would look up, if any
DisplayKey(cw) == IF cw # <<>> /\ Strip(cw[1]) # <<>> THEN <<Strip(cw[1])>> ELSE <<>>

\* The run of the script that follows a widget event of session s, once the
\* handler has left the session with history hist and current word cw: the
\* "Display results" section looks the word up and renders the outcome.
Rerun(s, hist, cw, resp) ==
  /\ history' = [history EXCEPT ![s] = hist]
  /\ current_word' = [current_word EXCEPT ![s] = cw]
  /\ IF DisplayKey(cw) = <<>>
       THEN /\ shown' = [shown EXCEPT ![s] = "blank"]
            /\ output_text' = [output_text EXCEPT ![s] = <<>>]
            /\ last' = NoLookup
            /\ UNCHANGED caches
     ELSE \E r \in CachedGetWordData(database, data_cache, api_cache,
                                     DisplayKey(cw)[1], api_key, resp, now) :
            /\ data_cache' = r.dc
            /\ api_cache' = r.ac
            /\ shown' = [shown EXCEPT ![s] = View(r.out)]
            /\ output_text' =
                 [output_text EXCEPT
                    ![s] = IF View(r.out) = "result"
                             THEN <<format_output(r.out.val[1])>> ELSE <<>>]
            /\ last' = [op |-> "get_word_data", raw |-> DisplayKey(cw)[1],
                        exc |-> r.out.exc, val |-> r.out.val, http |-> r.out.http,
                        dbq |-> r.out.dbq, hit |-> r.hit, looked |-> TRUE,
                        resp |-> Received(r.out, resp)]
  /\ UNCHANGED <<env, now, console, calls>>

\* handle_search_input: Enter in the search box holding raw (the flag
\* search_triggered_by_enter that it also sets is read nowhere)
SearchEnter(s, raw, resp) ==
  LET search_val == Strip(raw)
  IN  IF search_val # <<>>
        THEN Rerun(s, add_to_history(history[s], search_val), <<search_val>>, resp)
      ELSE Rerun(s, history[s], current_word[s], resp)

\* the Search button, the search box holding raw
SearchButton(s, raw, resp) ==
  LET search_input_value == Strip(raw)
  IN  IF search_input_value # <<>>
        THEN Rerun(s, add_to_history(history[s], search_input_value),
                   <<search_input_value>>, resp)
      ELSE Rerun(s, history[s], current_word[s], resp)

\* the i-th button of the sidebar's history
HistoryClick(s, i, resp) ==
  /\ i \in 1..Len(history[s])
  /\ Rerun(s, history[s], <<history[s][i]>>, resp)

\* a "Try These Words" button, rendered when the word was not found
SuggestionClick(s, word, resp) ==
  /\ shown[s] = "notfound"
  /\ Rerun(s, history[s], <<Lower(word)>>, resp)

\* the "New Search" button, rendered with a result
NewSearch(s) ==
  /\ shown[s] = "result"
  /\ Rerun(s, history[s], <<>>, NoResponse)

\* the "Clear" button, rendered with a result
Clear(s) ==
  /\ shown[s] = "result"
  /\ Rerun(s, <<>>, <<>>, NoResponse)

\* what is typed into the search box
PageInputs == {<<" ">>, wA, wCapA, <<" ", "a">>, wB, wC, wD, wAB}

\* the database, the key and the network of the page runs
PageDatabases == {<<Syn2, Syn4>>}
PageApiKeys == {NoEnv}
PageResponses == {NoResponse}

InitPage ==
  /\ database \in PageDatabases
  /\ api_key \in PageApiKeys
  /\ InitState

PageEvent(s, inputs, responses) ==
  \/ \E raw \in inputs : \E resp \in responses : SearchEnter(s, raw, resp)
  \/ \E raw \in inputs : \E resp \in responses : SearchButton(s, raw, resp)
  \/ \E i \in 1..HistoryLimit : \E resp \in responses : HistoryClick(s, i, resp)
  \/ \E word \in Suggestions : \E resp \in responses : SuggestionClick(s, word, resp)
  \/ NewSearch(s)
  \/ Clear(s)

NextPage == PageEvent(1, PageInputs, PageResponses)

SpecPage == InitPage /\ [][NextPage]_vars

\* The page over an hour and more: a word in three spellings and a word the
\* database lacks, with a key or without, the network up or down.
CacheInputs == {wA, wCapA, <<" ", "a">>, wD}
CacheDatabases == {<<Syn2>>}
CacheApiKeys == {NoEnv, "k"}
CacheResponses ==
  {NoResponse,
   [kind |-> "response", status_code |-> 200,
    body |-> Body("obj", Field("list", <<MeaningC, MeaningNoDefs>>))],
   [kind |-> "response", status_code |-> 200, body |-> Body("null", AbsentField)]}

InitCache ==
  /\ database \in CacheDatabases
  /\ api_key \in CacheApiKeys
  /\ InitState

NextCache ==
  \/ \E raw \in CacheInputs : \E resp \in CacheResponses : SearchEnter(1, raw, resp)
  \/ \E word \in Suggestions : \E resp \in CacheResponses :
       SuggestionClick(1, word, resp)
  \/ Tick

SpecCache == InitCache /\ [][NextCache]_vars

\* Several sessions of one server process, their events interleaved in any
\* order: each has its own st.session_state, all share the two st.cache_data
\* caches of the process.
SessionInputs == {wA, wD}
SessionDatabases == {<<Syn2>>}
SessionApiKeys == {NoEnv}
SessionResponses == {NoResponse}

InitSessions ==
  /\ database \in SessionDatabases
  /\ api_key \in SessionApiKeys
  /\ InitState

SessionEvent(s) == PageEvent(s, SessionInputs, SessionResponses)

NextSessions == \E s \in Sessions : SessionEvent(s)

SpecSessions == InitSessions /\ [][NextSessions]_vars

\* ------------------------------------------------------------------ claims

Looked == last.op = "get_word_data"
LastWord == Normalize(last.raw)
LastSynsets == synsets(database, LastWord)

\* C1: a lookup of a word with at least one local entry returns a record that
\* is not marked as remote, whose definitions are the glosses of the matched
\* entries, one per entry, in the database's enumeration order.
C1_LocalRecord ==
  (Looked /\ LastSynsets # <<>>) =>
    /\ last.exc = "none"
    /\ last.val # <<>>
    /\ last.val[1].source # "WordsAPI"
    /\ last.val[1].definitions # <<>>
    /\ Len(last.val[1].definitions) = Len(LastSynsets)
    /\ \A i \in 1..Len(LastSynsets) :
         /\ last.val[1].definitions[i].text = LastSynsets[i].definition
         /\ last.val[1].definitions[i].pos = LastSynsets[i].pos

\* two matched entries with the same gloss, both listed
C1_Witness ==
  /\ Looked /\ last.val # <<>>
  /\ Len(LastSynsets) = 2
  /\ Len(last.val[1].definitions) = 2
  /\ last.val[1].definitions[1].text = last.val[1].definitions[2].text

\* C2: in every result of either front end the synonyms do not contain the
\* normalised input word.
C2_SynonymsExcludeWord ==
  (last.op \in {"get_word_data", "line"} /\ last.val # <<>>) =>
    LastWord \notin Range(last.val[1].synonyms)

\* C2 restricted to the results built from local entries
C2_LocalSynonymsExcludeWord ==
  (last.op \in {"get_word_data", "line"} /\ last.val # <<>>
     /\ LastSynsets # <<>>) =>
    LastWord \notin Range(last.val[1].synonyms)

\* C3: without a credential, a lookup of a word with no local entry returns
\* None and sends no HTTP request.
C3_NoCredentialNotFound ==
  (Looked /\ LastSynsets = <<>> /\ api_key \in {NoEnv, ""}) =>
    /\ last.exc = "none"
    /\ last.val = <<>>
    /\ last.http = 0

C3_Witness ==
  /\ Looked /\ LastWord # <<>> /\ LastSynsets = <<>>
  /\ api_key = NoEnv /\ last.dbq = 1 /\ last.val = <<>>

\* C4: a returned record has at most 3 examples and no string twice among its
\* synonyms or among its antonyms.
C4_RecordBounds ==
  (Looked /\ last.val # <<>>) =>
    /\ Len(last.val[1].examples) <= 3
    /\ NoDup(last.val[1].synonyms)
    /\ NoDup(last.val[1].antonyms)

\* a remote record cut to 3 examples whose meanings repeated a synonym
C4_Witness ==
  /\ Looked /\ last.val # <<>>
  /\ last.val[1].source = "WordsAPI"
  /\ Len(last.val[1].examples) = 3
  /\ Len(last.val[1].synonyms) = 2

\* C8 as stated: for an input that is empty once normalised the lookup queries
\* nothing and returns something other than the None of a word not found.
C8_EmptyInputDistinct ==
  (Looked /\ LastWord = <<>>) =>
    /\ last.dbq = 0 /\ last.http = 0
    /\ last.val # <<>>

\* C8 amended: for an input that is empty once normalised the lookup queries
\* neither the database nor the API and returns None, as for a word not found.
C8_EmptyInputNone ==
  (Looked /\ LastWord = <<>>) =>
    /\ last.dbq = 0 /\ last.http = 0
    /\ last.exc = "none" /\ last.val = <<>>

C8_Witness == Looked /\ last.raw = <<" ">> /\ ~last.hit

\* C9: the remote fallback never lets an error out: every lookup returns.
C9_ApiNeverRaises == Looked => last.exc = "none"

\* C10: the console loop has exited, with code 0, exactly when the last line
\* was quit, exit or q (trimmed, in any case) or an interrupt arrived; an
\* empty line is not looked up; any other line is, and the loop goes on.
C10_ConsoleLoop ==
  LET cmd == Lower(Strip(last.raw))
      quits == last.op = "line"
                 /\ cmd \in {<<"q", "u", "i", "t">>, <<"e", "x", "i", "t">>, <<"q">>}
  IN  /\ con_pc = "exited" <=> (quits \/ last.op = "interrupt")
      /\ con_pc = "exited" => con_exit = 0
      /\ con_pc = "prompt" => con_exit = -1
      /\ (last.op = "line" /\ ~quits) => (last.looked <=> Strip(last.raw) # <<>>)
      /\ last.op \in {"eof", "interrupt"} => ~last.looked

C10_Witness ==
  con_pc = "exited" /\ con_exit = 0 /\ last.raw = <<" ", "q", " ">>

\* a step of the page in which the script looked a word up
LookupStep == now' = now /\ last'.op = "get_word_data"

\* C5: a lookup made while the cache holds an unexpired answer for an input
\* with the same normalised word is a hit: it returns that answer and queries
\* neither the database nor the API.
C5_HitPerNormalizedWord ==
  [][\A k \in DOMAIN data_cache :
       (LookupStep /\ Fresh(data_cache, k, DataTTL, now)
          /\ Normalize(k) = Normalize(last'.raw)) =>
         /\ last'.hit
         /\ last'.dbq = 0 /\ last'.http = 0
         /\ last'.val = data_cache[k].val]_vars

\* C5 for an input equal, once trimmed, to the one answered before
C5_HitPerArgument ==
  [][\A k \in DOMAIN data_cache :
       (LookupStep /\ Fresh(data_cache, k, DataTTL, now) /\ k = last'.raw) =>
         /\ last'.hit
         /\ last'.dbq = 0 /\ last'.http = 0
         /\ last'.val = data_cache[k].val]_vars

HistoryInv ==
  \A s \in Sessions : Len(history[s]) <= 5 /\ NoDup(history[s])

\* a step that changes a full history puts one new word in front of its
\* first four entries
DropsOldest ==
  \A s \in Sessions :
    (Len(history[s]) = 5 /\ history'[s] # history[s] /\ history'[s] # <<>>) =>
      /\ Len(history'[s]) = 5
      /\ history'[s][1] \notin Range(history[s])
      /\ \A i \in 1..4 : history'[s][i + 1] = history[s][i]

\* C6: the history never has more than 5 entries nor a word twice, and
\* recording a new word into a full history drops exactly its last entry.
C6_HistoryBounded == HistoryInv /\ [][HistoryInv' /\ DropsOldest]_vars

\* six words were searched and the history holds the last five
C6_Witness ==
  /\ Len(history[1]) = 5
  /\ Cardinality(DOMAIN data_cache) = 6
  /\ current_word[1] = <<history[1][1]>>

\* a step that can be a search (Enter or the Search button) for raw
SearchStep(raw) ==
  \E resp \in PageResponses :
    SearchEnter(1, raw, resp) \/ SearchButton(1, raw, resp)

\* C7: right after a word is recorded it is the first entry of the history
\* and occurs in it once.
C7_RecordedWordFirst ==
  [][\A raw \in PageInputs :
       (Strip(raw) # <<>> /\ SearchStep(raw)) =>
         /\ history'[1] # <<>>
         /\ history'[1][1] = Strip(raw)
         /\ Cardinality({i \in 1..Len(history'[1]) : history'[1][i] = Strip(raw)}) = 1]_vars

\* the record the page's lookup returned, as the console reports a word:
\* found or not, the glosses and the synonyms
PageReport(val) ==
  IF val = <<>> THEN [found |-> FALSE, definitions |-> <<>>, synonyms |-> {}]
  ELSE [found |-> TRUE,
        definitions |-> [i \in 1..Len(val[1].definitions) |->
                           val[1].definitions[i].text],
        synonyms |-> Range(val[1].synonyms)]

\* what the console's lookup reports for the same input on the same database
ConsoleReport(raw) ==
  LET c == get_definitions_and_synonyms(database, raw)
  IN  [found |-> c.found, definitions |-> c.definitions,
       synonyms |-> Range(c.synonyms)]

\* C11: for every input, database and API answer, the page's lookup and the
\* console's lookup report the same outcome: both find the word or neither
\* does, with the same definitions and the same synonyms.
C11_FrontEndsAgree ==
  (Looked /\ last.exc = "none") => PageReport(last.val) = ConsoleReport(last.raw)

\* C11 for the words the API is not asked about: when the page's lookup sends
\* no request, both front ends agree on whether the word is found and on its
\* definitions.
C11_AgreeOnLocalDefinitions ==
  (Looked /\ last.exc = "none" /\ last.http = 0 /\ ~last.hit) =>
    /\ PageReport(last.val).found = ConsoleReport(last.raw).found
    /\ PageReport(last.val).definitions = ConsoleReport(last.raw).definitions

\* C11 for the synonyms of a word found in the database
C11_AgreeOnLocalSynonyms ==
  (Looked /\ LastSynsets # <<>>) =>
    PageReport(last.val).synonyms = ConsoleReport(last.raw).synonyms

\* an event of session s leaves the session state of every other session as
\* it was
OthersSessionStateKept(s) ==
  \A t \in Sessions \ {s} :
    /\ history'[t] = history[t]
    /\ current_word'[t] = current_word[t]

\* an event of session s leaves the outcome (hit or miss) that a lookup of any
\* other session would have as it was
OthersCacheOutcomeKept ==
  \A k \in DOMAIN data_cache \cup DOMAIN data_cache' :
    Fresh(data_cache', k, DataTTL, now') <=> Fresh(data_cache, k, DataTTL, now)

\* C12: with the events of several sessions interleaved, no event of one
\* session changes the history or the current word of another session, nor
\* whether a lookup of another session is a cache hit or a miss.
C12_SessionsIsolated ==
  [][\A s \in Sessions :
       SessionEvent(s) => (OthersSessionStateKept(s) /\ OthersCacheOutcomeKept)]_vars

\* C12 for the session state alone: history and current word
C12_SessionStateIsolated ==
  [][\A s \in Sessions : SessionEvent(s) => OthersSessionStateKept(s)]_vars

\* a first lookup of a word in session 1 is a hit, on the entry that the
\* lookup of session 2 stored
C12_HitOnOtherSessionsEntry ==
  /\ last.hit /\ last.raw = wA
  /\ current_word[1] = <<wA>> /\ history[1] = <<wA>>
  /\ wA \in Range(history[2])

\* C13: a lookup of a word with at least one local entry returns the local
\* record and asks the API nothing, neither by a request nor by a call of
\* get_word_from_api; a request is sent only by a lookup whose database query
\* returned no entry.
C13_LocalEntriesWin ==
  Looked =>
    /\ LastSynsets # <<>> =>
         /\ last.http = 0
         /\ LastWord \notin DOMAIN api_cache
         /\ last.val # <<>> /\ last.val[1].source # "WordsAPI"
    /\ last.http > 0 => (last.dbq = 1 /\ LastSynsets = <<>>)

\* a key is configured and the local record has neither examples nor
\* synonyms nor antonyms
C13_Witness ==
  /\ Looked /\ LastSynsets # <<>> /\ api_key = "k"
  /\ last.val # <<>>
  /\ last.val[1].examples = <<>>
  /\ last.val[1].synonyms = <<>>
  /\ last.val[1].antonyms = <<>>
  /\ last.http = 0 /\ last.dbq = 1

\* the meanings of a response body: the items of its "meanings" array
BodyMeanings(body) ==
  IF body.t = "obj" /\ body.meanings.t = "list" THEN body.meanings.items ELSE <<>>

\* the definition texts of one meaning, in the order of its "definitions" array
MeaningDefinitions(meaning) ==
  IF meaning.t = "obj" /\ meaning.definitions.t = "list"
       /\ meaning.definitions.items # <<>>
    THEN [i \in 1..Len(meaning.definitions.items) |->
            IF meaning.definitions.items[i].definition = <<>> THEN ""
            ELSE meaning.definitions.items[i].definition[1]]
  ELSE <<>>

RECURSIVE BodyDefinitions(_)
\* the definitions list aggregated across the meanings, meaning by meaning
BodyDefinitions(meanings) ==
  IF meanings = <<>> THEN <<>>
  ELSE MeaningDefinitions(Head(meanings)) \o BodyDefinitions(Tail(meanings))

\* the first two examples of each meaning
BodyExamples(meanings) ==
  UNION {IF meanings[i].t = "obj" /\ meanings[i].examples.t = "list"
           THEN Range(Prefix(meanings[i].examples.items, 2))
         ELSE {} : i \in 1..Len(meanings)}

\* the claim of C14 about the outcome of a lookup that received a 200 response
RemoteRecordAsClaimed ==
  LET meanings == BodyMeanings(last.resp.body)
      defs == BodyDefinitions(meanings)
      exs == BodyExamples(meanings)
  IN  /\ last.val = <<>> <=> defs = <<>>
      /\ last.val # <<>> =>
           /\ last.val[1].source = "WordsAPI"
           /\ Len(last.val[1].definitions) = Len(defs)
           /\ \A i \in 1..Len(defs) : last.val[1].definitions[i].text = defs[i]
           /\ NoDup(last.val[1].examples)
           /\ Range(last.val[1].examples) \subseteq exs
           /\ Len(last.val[1].examples) =
                (IF Cardinality(exs) < 3 THEN Cardinality(exs) ELSE 3)

Got200 == Looked /\ last.resp.kind = "response" /\ last.resp.status_code = 200

\* C14: on a 200 response the remote fallback returns; it returns None exactly
\* when the definitions aggregated across the meanings are none, and otherwise
\* a record marked as remote with those definitions in encounter order and with
\* examples that are distinct, among the first 2 of each meaning, and 3 at most.
C14_RemoteRecord ==
  Got200 => (last.exc = "none" /\ RemoteRecordAsClaimed)

\* C14 for the 200 responses on which the parse raises nothing
C14_RemoteRecordIfReturned ==
  (Got200 /\ last.exc = "none") => RemoteRecordAsClaimed

\* a 200 response with definitions in two meanings and five examples to
\* choose from gave a record
C14_ReturnedRecord ==
  /\ Got200 /\ last.val # <<>>
  /\ Len(last.val[1].definitions) = 4
  /\ Len(last.val[1].examples) = 3
  /\ Cardinality(BodyExamples(BodyMeanings(last.resp.body))) > 3

\* the name of a grammatical category, written as WordNet's code or as the
\* API's word
CategoryName(pos) ==
  CASE pos \in {"n", "noun"} -> "Noun"
    [] pos \in {"v", "verb"} -> "Verb"
    [] pos \in {"a", "adjective"} -> "Adjective"
    [] pos \in {"s", "adjective satellite"} -> "Adjective Satellite"
    [] pos \in {"r", "adverb"} -> "Adverb"
    [] OTHER -> "Unknown"

\* the definitions of the rendered text are those of the record, numbered
\* from 1 in its order
NumberedInOrder(out, rec) ==
  /\ Len(out.definitions) = Len(rec.definitions)
  /\ \A i \in 1..Len(rec.definitions) :
       /\ out.definitions[i].number = i
       /\ out.definitions[i].text = rec.definitions[i].text

\* C15: the text rendered for a record, local or remote, numbers its
\* definitions from 1 in the record's order and labels each with the name of
\* its own category, Unknown only for a category that is none of the five.
C15_DefinitionsLabelled ==
  shown[1] = "result" =>
    /\ NumberedInOrder(output_text[1][1], last.val[1])
    /\ \A i \in 1..Len(last.val[1].definitions) :
         output_text[1][1].definitions[i].name =
           CategoryName(last.val[1].definitions[i].pos)

\* C15 for the records built from local entries
C15_LocalDefinitionsLabelled ==
  (shown[1] = "result" /\ last.val[1].source # "WordsAPI") =>
    /\ NumberedInOrder(output_text[1][1], last.val[1])
    /\ \A i \in 1..Len(last.val[1].definitions) :
         output_text[1][1].definitions[i].name =
           CategoryName(last.val[1].definitions[i].pos)

\* C15 for the numbering alone, of every record
C15_DefinitionsNumbered ==
  shown[1] = "result" => NumberedInOrder(output_text[1][1], last.val[1])

\* C16, the termination it concludes: once the input stream has ended, the
\* console loop eventually exits.
C16_ConsoleTerminates == con_eof ~> (con_pc = "exited")

\* C16, the handling it starts from: an EOFError is reported and the loop goes
\* on with a new prompt, without exiting.
C16_ErrorReportedLoopGoesOn ==
  [][/\ last'.op = "eof" => con_pc' \in {"except", "prompt"}
     /\ con_pc = "except" => (con_pc' = "prompt" /\ con_exit' = -1)]_vars

\* at the end of the input the loop never exits unless it is interrupted
C16_LoopsAtEndOfInput ==
  [][(con_eof /\ con_pc' = "exited") => last'.op = "interrupt"]_vars

====
